---- MODULE Spec2Model ----
(***************************************************************************)
(* Corruption-Server: the Express/MongoDB backend.  Two builds of the same *)
(* application are modelled: src/index.js (the long-running server, which  *)
(* connects once at startup and then listens) and src/unnamed/part_000     *)
(* (the serverless export, whose handlers call connectDB themselves).      *)
(*                                                                         *)
(* A request handler is a sequence of atomic steps separated by its awaits *)
(* on the store; between two awaits of one handler the steps of any other  *)
(* in-flight handler may run.  A store operation takes effect in the step  *)
(* that issues it and the handler resumes with its result in a later step. *)
(* The store is taken to be available: an operation that is issued         *)
(* completes.  Request bodies are parsed values.                           *)
(***************************************************************************)
EXTENDS Integers, Sequences, FiniteSets, Bags, TLC

\* ------------------------------------------------------------------ bounds
MaxInFlight == 2       \* requests that can be in flight together
MaxRequests == 3       \* requests received in one behaviour
MaxTime == 1           \* the clock runs 0..MaxTime (days)
MaxId == 2             \* well-formed path ids are 1..MaxId

\* --------------------------------------------------------- program values
TokenTTL == 1          \* expiresIn: "1d", in days
JWT_SECRET == "JWT_SECRET"
ForgedKey == "not-the-secret"
AdminEmail == "admin@corruption.com"
AdminPassword == "admin123"

Emails == {"a@x.com", AdminEmail}
Passwords == {"pw1", AdminPassword}
\* request bodies of register and login: every pair, and one body with each
\* field missing
Credentials ==
    [email : Emails, password : Passwords]
    \cup {[email |-> "", password |-> "pw1"], [email |-> "a@x.com", password |-> ""]}
Titles == {"t1"}
PathIds == [hex : {TRUE}, oid : 1..MaxId] \cup {[hex |-> FALSE, oid |-> 0]}
NoParam == [hex |-> FALSE, oid |-> 0]

VARIABLES
    build,          \* "index" (src/index.js) or "vercel" (src/unnamed/part_000)
    connected,      \* client.topology?.isConnected()
    listening,      \* app.listen has been called (index build)
    startup,        \* the module-level connectDB() call: "connecting" | "done"
    connectCalls,   \* number of client.connect() invocations
    assignCount,    \* number of assignments to usersCollection/casesCollection
    users,          \* the users collection, in natural (insertion) order
    cases,          \* the cases collection
    nextCaseId,     \* the next _id the store generates for a case
    issued,         \* the tokens login has signed
    now,            \* the clock
    req,            \* the bag of requests in flight (handlers awaiting)
    last,           \* the request the latest step answered, with its response
                    \* (Idle when the latest step answered none)
    served,         \* requests received so far
    blockOk         \* per user: number of PUT /api/block answered with success

vars == <<build, connected, listening, startup, connectCalls, assignCount,
          users, cases, nextCaseId, issued, now, req, last, served, blockOk>>

conn == <<connected, listening, startup, connectCalls, assignCount>>
stores == <<users, cases, nextCaseId, blockOk>>

\* ------------------------------------------------------------- libraries
\* bcrypt.hash(password, 10): the stored value is not the plaintext.
BcryptHash(p) == [bcrypt |-> p, cost |-> 10]

\* bcrypt.compare(password, hash)
BcryptCompare(p, h) == BcryptHash(p) = h

\* jwt.sign({id, role}, key, {expiresIn: "1d"}) at time t
JwtSign(id, role, key, t) ==
    [id |-> id, role |-> role, iat |-> t, exp |-> t + TokenTTL, key |-> key]

\* faulty variant: verification with ignoreExpiration
JwtVerifyNoExpiry(tok, key, t) ==
    IF tok = <<>> THEN <<>>
    ELSE IF tok[1].key # key THEN <<>>
    ELSE <<[id |-> tok[1].id, role |-> tok[1].role]>>

\* faulty variant: jwt.decode, which does not check the signature
JwtDecodeOnly(tok, key, t) ==
    IF tok = <<>> THEN <<>>
    ELSE IF t >= tok[1].exp THEN <<>>
    ELSE <<[id |-> tok[1].id, role |-> tok[1].role]>>

\* jwt.verify(token, key) at time t: the decoded payload, <<>> when it throws
JwtVerify(tok, key, t) ==
    IF tok = <<>> THEN <<>>
    ELSE IF tok[1].key # key THEN <<>>
    ELSE IF t >= tok[1].exp THEN <<>>
    ELSE <<[id |-> tok[1].id, role |-> tok[1].role]>>

\* header.split(" ")[1]: a header is the sequence of its space-separated
\* parts; the result is <<>> for undefined.
SplitSecond(header) == IF Len(header) >= 2 THEN <<header[2]>> ELSE <<>>

\* ---------------------------------------------------------------- auth
\* The auth middleware: the identity attached to req.user, <<>> when the
\* request is answered 401.
Auth(header, t) ==
    IF header = <<>> THEN <<>> ELSE JwtVerify(SplitSecond(header), JWT_SECRET, t)

AuthMessage(header) ==
    IF header = <<>> THEN "No token provided" ELSE "Invalid or expired token"

\* faulty variant: the role check is missing
NotAdminNever(user) == FALSE

\* req.user.role !== "admin"
NotAdmin(user) == user[1].role # "admin"

\* new ObjectId(param) throws unless param is a well-formed id
ObjectIdThrows(p) == ~p.hex

\* ---------------------------------------------------------------- store
\* usersCollection.findOne({email}): the first match in natural order
FindOneByEmail(e) ==
    LET hits == {i \in DOMAIN users : users[i].email = e}
    IN  IF hits = {} THEN <<>>
        ELSE <<users[CHOOSE i \in hits : \A j \in hits : i <= j]>>

\* usersCollection.findOne({_id})
FindOneById(id) == IF id \in DOMAIN users THEN <<users[id]>> ELSE <<>>

NewUser(e, p, role) ==
    [_id |-> Len(users) + 1, email |-> e, password |-> BcryptHash(p),
     role |-> role, blocked |-> FALSE]

\* ------------------------------------------------------------- requests
Idle ==
    [route |-> "none", pc |-> "idle", email |-> "", password |-> "",
     header |-> <<>>, id |-> NoParam, title |-> "", at |-> 0,
     user |-> <<>>, found |-> <<>>,
     status |-> 0, message |-> "", token |-> <<>>, role |-> ""]

Respond(r, status, message) ==
    [r EXCEPT !.pc = "done", !.status = status, !.message = message]

\* the handler answers, res.status(status).json({message}); rest are the
\* other requests in flight
Answer(rest, r, status, message) ==
    /\ last' = Respond(r, status, message)
    /\ req' = rest

\* the handler awaits a store operation, its state being r
Await(rest, r) ==
    /\ req' = rest (+) SetToBag({r})
    /\ last' = Idle

\* the requests in flight, and those other than r
InFlight == BagToSet(req)
Others(r) == req (-) SetToBag({r})

Protected == {"postCase", "deleteCase", "block"}

\* the server takes requests: the index build after app.listen, the
\* serverless export as soon as the module is loaded
Accepting == build = "vercel" \/ listening

\* what a client can put in the Authorization header
\* (no header, a scheme without a token, a token login issued under either
\* scheme word, or a token signed with another key)
Headers ==
    {<<>>, <<"Bearer">>, <<"Bearer", JwtSign(1, "admin", ForgedKey, now)>>}
    \cup {<<"Bearer", t>> : t \in issued}
    \cup {<<"Basic", t>> : t \in issued}

\* ------------------------------------------------------------------ Init
AdminRecord ==
    [_id |-> 1, email |-> AdminEmail, password |-> BcryptHash(AdminPassword),
     role |-> "admin", blocked |-> FALSE]

\* The module has been loaded: connectDB() has been called and is awaiting
\* client.connect().  The store outlives the process: it is empty, or already
\* holds the admin account that an earlier GET /create-admin seeded.
Init ==
    /\ build \in {"index", "vercel"}
    /\ connected = FALSE
    /\ listening = FALSE
    /\ startup = "connecting"
    /\ connectCalls = 1
    /\ assignCount = 0
    /\ users \in {<<>>, <<AdminRecord>>}
    /\ blockOk = [i \in DOMAIN users |-> 0]
    /\ cases = {}
    /\ nextCaseId = 1
    /\ issued = {}
    /\ now = 0
    /\ req = EmptyBag
    /\ last = Idle
    /\ served = 0

\* ------------------------------------------------------------- connectDB
\* the startup connectDB() resumes after await client.connect()
StartupConnected ==
    /\ startup = "connecting"
    /\ startup' = "done"
    /\ connected' = TRUE
    /\ assignCount' = assignCount + 1
    /\ listening' = (build = "index")
    /\ last' = Idle
    /\ UNCHANGED <<build, connectCalls, stores, issued, now, req, served>>

\* ---------------------------------------------------- POST /api/register
RegisterBody(rest, r) ==
    /\ r.route = "register"
    /\ IF r.email = "" \/ r.password = ""
       THEN Answer(rest, r, 400, "All fields required")
       ELSE IF FindOneByEmail(r.email) # <<>>
       THEN Answer(rest, r, 400, "Email already registered")
       ELSE Await(rest, [r EXCEPT !.pc = "insertOne"])
    /\ UNCHANGED <<stores, issued>>

RegisterInsert(r) ==
    /\ r.route = "register"
    /\ r.pc = "insertOne"
    /\ users' = Append(users, NewUser(r.email, r.password, "user"))
    /\ blockOk' = Append(blockOk, 0)
    /\ Answer(Others(r), r, 200, "Registered successfully")
    /\ UNCHANGED <<build, conn, cases, nextCaseId, issued, now, served>>

\* ------------------------------------------------------- GET /create-admin
CreateAdminBody(rest, r) ==
    /\ r.route = "createAdmin"
    /\ IF FindOneByEmail(AdminEmail) # <<>>
       THEN Answer(rest, r, 200, "Admin already exists")
       ELSE Await(rest, [r EXCEPT !.pc = "insertOne"])
    /\ UNCHANGED <<stores, issued>>

CreateAdminInsert(r) ==
    /\ r.route = "createAdmin"
    /\ r.pc = "insertOne"
    /\ users' = Append(users, NewUser(AdminEmail, AdminPassword, "admin"))
    /\ blockOk' = Append(blockOk, 0)
    /\ Answer(Others(r), r, 200, "Admin created")
    /\ UNCHANGED <<build, conn, cases, nextCaseId, issued, now, served>>

\* ------------------------------------------------------- POST /api/login
LoginBody(rest, r) ==
    /\ r.route = "login"
    /\ IF r.email = "" \/ r.password = ""
       THEN Answer(rest, r, 400, "All fields required")
       ELSE IF FindOneByEmail(r.email) = <<>>
       THEN Answer(rest, r, 400, "User not found")
       ELSE Await(rest, [r EXCEPT !.pc = "compare", !.found = FindOneByEmail(r.email)])
    /\ UNCHANGED <<stores, issued>>

\* faulty variant: the blocked flag is checked before the password
LoginDecisionBlockedFirst(u, p) ==
    IF u.blocked THEN <<403, "User is blocked">>
    ELSE IF ~BcryptCompare(p, u.password) THEN <<400, "Wrong password">>
    ELSE <<200, "">>

\* the checks of login after the user was found: <<status, message>>
LoginDecision(u, p) ==
    IF ~BcryptCompare(p, u.password) THEN <<400, "Wrong password">>
    ELSE IF u.blocked THEN <<403, "User is blocked">>
    ELSE <<200, "">>

LoginCompare(r) ==
    /\ r.route = "login"
    /\ r.pc = "compare"
    /\ LET u == r.found[1]
           d == LoginDecision(u, r.password)
           t == JwtSign(u._id, u.role, JWT_SECRET, now)
       IN  IF d[1] # 200
           THEN /\ Answer(Others(r), r, d[1], d[2])
                /\ issued' = issued
           ELSE /\ Answer(Others(r), [r EXCEPT !.token = <<t>>, !.role = u.role], 200, "")
                /\ issued' = issued \cup {t}
    /\ UNCHANGED <<build, conn, stores, now, served>>

\* ------------------------------------------------------- POST /api/cases
\* (upload.single("image") runs between auth and the handler and touches no
\* store; the token's id is a well-formed ObjectId)
PostCaseBody(rest, r) ==
    /\ r.route = "postCase"
    /\ cases' = cases \cup {[_id |-> nextCaseId, title |-> r.title,
                             userId |-> r.user[1].id]}
    /\ nextCaseId' = nextCaseId + 1
    /\ Answer(rest, r, 200, "Case added successfully")
    /\ UNCHANGED <<users, blockOk, issued>>

\* --------------------------------------------------- DELETE /api/cases/:id
DeleteCaseBody(rest, r) ==
    /\ r.route = "deleteCase"
    /\ IF NotAdmin(r.user)
       THEN /\ Answer(rest, r, 403, "Admin only")
            /\ cases' = cases
       ELSE IF ObjectIdThrows(r.id)
       THEN /\ Answer(rest, r, 500, "Delete failed")
            /\ cases' = cases
       ELSE /\ cases' = {c \in cases : c._id # r.id.oid}
            /\ Answer(rest, r, 200, "Deleted successfully")
    /\ UNCHANGED <<users, blockOk, nextCaseId, issued>>

\* ------------------------------------------------------ PUT /api/block/:id
BlockBody(rest, r) ==
    /\ r.route = "block"
    /\ IF NotAdmin(r.user)
       THEN Answer(rest, r, 403, "Admin only")
       ELSE IF ObjectIdThrows(r.id)
       THEN Answer(rest, r, 500, "Update failed")
       ELSE IF FindOneById(r.id.oid) = <<>>
       THEN Answer(rest, r, 404, "User not found")
       ELSE Await(rest, [r EXCEPT !.pc = "updateOne", !.found = FindOneById(r.id.oid)])
    /\ UNCHANGED <<stores, issued>>

BlockUpdate(r) ==
    /\ r.route = "block"
    /\ r.pc = "updateOne"
    /\ LET u == r.found[1]
       IN  /\ users' = [users EXCEPT ![u._id].blocked = ~u.blocked]
           /\ blockOk' = [blockOk EXCEPT ![u._id] = @ + 1]
    /\ Answer(Others(r), r, 200, "User status updated")
    /\ UNCHANGED <<build, conn, cases, nextCaseId, issued, now, served>>

\* ----------------------------------------------------------- dispatching
\* the handler body up to and including its first store operation
Body(rest, r) ==
    \/ RegisterBody(rest, r)
    \/ CreateAdminBody(rest, r)
    \/ LoginBody(rest, r)
    \/ PostCaseBody(rest, r)
    \/ DeleteCaseBody(rest, r)
    \/ BlockBody(rest, r)

\* A request r arrives.  Protected routes run auth first; the serverless
\* handlers then await connectDB(), which calls client.connect() unless the
\* topology is connected; then the handler body runs.
Arrive(r0) ==
    /\ Accepting
    /\ served < MaxRequests
    /\ BagCardinality(req) < MaxInFlight
    /\ served' = served + 1
    /\ LET rest == req
           r == IF r0.route \in Protected
                THEN [r0 EXCEPT !.user = Auth(r0.header, now), !.at = now]
                ELSE r0
       IN  IF r.route \in Protected /\ r.user = <<>>
           THEN /\ Answer(rest, r, 401, AuthMessage(r.header))
                /\ UNCHANGED <<conn, stores, issued>>
           ELSE IF build = "vercel" /\ ~connected
           THEN /\ Await(rest, [r EXCEPT !.pc = "connecting"])
                /\ connectCalls' = connectCalls + 1
                /\ UNCHANGED <<connected, listening, startup, assignCount,
                               stores, issued>>
           ELSE /\ Body(rest, r)
                /\ UNCHANGED conn
    /\ UNCHANGED <<build, now>>

\* a handler's connectDB() resumes after await client.connect()
HandlerConnected(r) ==
    /\ r.pc = "connecting"
    /\ connected' = TRUE
    /\ assignCount' = assignCount + 1
    /\ Body(Others(r), r)
    /\ UNCHANGED <<build, listening, startup, connectCalls, now, served>>

New(route) == [Idle EXCEPT !.route = route]

ArriveRegister ==
    \E c \in Credentials :
        Arrive([New("register") EXCEPT !.email = c.email, !.password = c.password])

ArriveLogin ==
    \E c \in Credentials :
        Arrive([New("login") EXCEPT !.email = c.email, !.password = c.password])

ArriveCreateAdmin ==
    /\ build = "index"
    /\ Arrive(New("createAdmin"))

ArrivePostCase ==
    \E h \in Headers, b \in Titles :
        Arrive([New("postCase") EXCEPT !.header = h, !.title = b])

ArriveDeleteCase ==
    \E h \in Headers, id \in PathIds :
        Arrive([New("deleteCase") EXCEPT !.header = h, !.id = id])

ArriveBlock ==
    /\ build = "index"
    /\ \E h \in Headers, id \in PathIds :
        Arrive([New("block") EXCEPT !.header = h, !.id = id])

Tick ==
    /\ now < MaxTime
    /\ now' = now + 1
    /\ last' = Idle
    /\ UNCHANGED <<build, conn, stores, issued, req, served>>

Next ==
    \/ StartupConnected
    \/ ArriveRegister
    \/ ArriveLogin
    \/ ArriveCreateAdmin
    \/ ArrivePostCase
    \/ ArriveDeleteCase
    \/ ArriveBlock
    \/ \E r \in InFlight : HandlerConnected(r)
    \/ \E r \in InFlight : RegisterInsert(r)
    \/ \E r \in InFlight : CreateAdminInsert(r)
    \/ \E r \in InFlight : LoginCompare(r)
    \/ \E r \in InFlight : BlockUpdate(r)
    \/ Tick

Spec == Init /\ [][Next]_vars

\* =================================================================== claims
\* the header of r carries, after its first space, a token that login signed
\* and that had not expired when r arrived
TokenOkIn(r, signed) ==
    /\ Len(r.header) >= 2
    /\ r.header[2] \in signed
    /\ r.at < r.header[2].iat + TokenTTL

TokenOk(r) == TokenOkIn(r, issued)

BearerForm(h) == Len(h) = 2 /\ h[1] = "Bearer"

\* the accounts a successful POST /api/register {e, p} created
Registered(e, p) ==
    {i \in DOMAIN users : /\ users[i].email = e
                          /\ users[i].role = "user"
                          /\ users[i].password = BcryptHash(p)}

\* C1 (as claimed): no two user records have the same email.
C1_EmailUnique ==
    \A i, j \in DOMAIN users : users[i].email = users[j].email => i = j

\* C2 (as claimed): a login with a non-empty email and a password that is not
\* the account's password is answered "Wrong password", whether or not an
\* account with that email exists.
C2_AlwaysWrongPassword ==
    (/\ last.route = "login"
     /\ last.email # "" /\ last.password # ""
     /\ \A i \in DOMAIN users :
            users[i].email = last.email => ~BcryptCompare(last.password, users[i].password))
    => (last.status = 400 /\ last.message = "Wrong password")

\* C2 (amended): such a login is answered 400 "Wrong password" when an account
\* with that email exists, blocked or not, and 400 "User not found" when none
\* exists.
C2_WrongPasswordHidesBlockedOnly ==
    (/\ last.route = "login"
     /\ last.email # "" /\ last.password # ""
     /\ \A i \in DOMAIN users :
            users[i].email = last.email => ~BcryptCompare(last.password, users[i].password))
    => /\ last.status = 400
       /\ last.message = IF \E i \in DOMAIN users : users[i].email = last.email
                         THEN "Wrong password" ELSE "User not found"

C2_Witness ==
    /\ last.route = "login"
    /\ last.message = "Wrong password"
    /\ last.found # <<>>
    /\ last.found[1].blocked

\* C3: a DELETE /api/cases/:id or PUT /api/block/:id whose verified token
\* carries a role other than admin is answered 403, whatever the path id, and
\* the step that answers it changes neither store.  (The handlers never read
\* req.body.)
C3_NonAdminForbidden ==
    [][(/\ last'.route \in {"deleteCase", "block"}
        /\ last'.user # <<>>
        /\ last'.user[1].role # "admin")
       => (last'.status = 403 /\ users' = users /\ cases' = cases)]_vars

C3_Witness ==
    /\ last.route = "deleteCase"
    /\ last.user # <<>>
    /\ last.user[1].role = "user"
    /\ last.status = 403
    /\ ~last.id.hex

\* C4 (as claimed): an admin DELETE of a stored case removes exactly that
\* case; an admin DELETE of an id that is not in the case store is answered
\* 404.
C4_DeleteExactlyOrNotFound ==
    [][(/\ last'.route = "deleteCase"
        /\ last'.user # <<>>
        /\ last'.user[1].role = "admin"
        /\ last'.id.hex)
       => IF \E c \in cases : c._id = last'.id.oid
          THEN /\ cases' = {c \in cases : c._id # last'.id.oid}
               /\ last'.status = 200
          ELSE /\ cases' = cases
               /\ last'.status = 404]_vars

\* C5 (as claimed): once the successful PUT /api/block requests on a user have
\* all completed, blocked is its initial value (false) after an even number of
\* them and its negation after an odd number.
C5_ToggleParity ==
    \A u \in DOMAIN users :
        (\A r \in InFlight : ~(r.route = "block" /\ r.pc = "updateOne"
                                /\ r.found[1]._id = u))
        => (users[u].blocked <=> (blockOk[u] % 2 = 1))

\* C6: a step of POST /api/cases, DELETE /api/cases/:id or PUT /api/block/:id
\* that writes a store belongs to a request whose token auth verified; a
\* request gets past auth (and to the role check) only with such a token; a
\* request without one is answered 401 by a step that changes neither store.
C6_AuthBeforeWrites ==
    [][/\ \A r \in InFlight' : r.route \in Protected => (r.user # <<>> /\ TokenOkIn(r, issued'))
       /\ last'.route \in Protected =>
            /\ (last'.status # 401) => (last'.user # <<>> /\ TokenOkIn(last', issued'))
            /\ ~TokenOkIn(last', issued') => last'.status = 401
            /\ (last'.status = 401) => (users' = users /\ cases' = cases)
       /\ (users' # users \/ cases' # cases) => last' # Idle
      ]_vars

C6_Witness ==
    /\ last.route = "postCase"
    /\ last.status = 200
    /\ \E c \in cases : c.userId = last.user[1].id

\* C7: auth accepts a request exactly when the token in its header was signed
\* by login and less than TokenTTL has passed since its issuance, and then
\* attaches the id and role the token was issued with, whatever the stores
\* hold (the user's blocked flag included).
C7_StatelessVerification ==
    \A r \in InFlight \cup {last} :
        r.route \in Protected =>
            /\ (r.user # <<>>) <=> TokenOk(r)
            /\ (r.user # <<>>) =>
                   r.user[1] = [id |-> r.header[2].id, role |-> r.header[2].role]

C7_Witness ==
    /\ last.route = "postCase"
    /\ last.status = 200
    /\ users[last.user[1].id].blocked

\* C8 (as claimed): a request whose Authorization header is not of the form
\* "Bearer <token>" is answered 401.
C8_BearerOnly ==
    (last.route \in Protected /\ ~BearerForm(last.header)) => last.status = 401

\* C9 (as claimed): when register {e, p} has succeeded and that user is not
\* blocked, a following login {e, p} finds that user and succeeds with a token
\* carrying the user's id and role "user", and role "user" in the response.
C9_LoginStep ==
    /\ (last'.route = "login" /\ last'.found = <<>>)
       => \A i \in Registered(last'.email, last'.password) : users[i].blocked
    /\ \A r \in InFlight' :
        (r.route = "login" /\ r.pc = "compare" /\ CopiesIn(r, req') > CopiesIn(r, req))
        => ((\E i \in Registered(r.email, r.password) : ~users[i].blocked)
            => (/\ r.found[1]._id \in Registered(r.email, r.password)
                /\ ~r.found[1].blocked))
    /\ (/\ last'.route = "login"
        /\ last'.found # <<>>
        /\ last'.found[1].role = "user"
        /\ last'.found[1].password = BcryptHash(last'.password)
        /\ ~last'.found[1].blocked)
       => /\ last'.status = 200
          /\ last'.role = "user"
          /\ last'.token # <<>>
          /\ last'.token[1].id = last'.found[1]._id
          /\ last'.token[1].role = "user"

C9_RegisterThenLogin == [][C9_LoginStep]_vars

\* (C9 fails only through duplicate emails: with unique emails it holds)
C9_WhenEmailsUnique == [][C1_EmailUnique => C9_LoginStep]_vars

\* C10 (as claimed): client.connect() is invoked at most once and the
\* collections are assigned at most once.
C10_ConnectOnce == connectCalls <= 1 /\ assignCount <= 1

====
